---- MODULE Spec2Model ----
(***************************************************************************)
(* Request lifecycle of the Uber Eats MCP server (server.py).              *)
(*                                                                         *)
(* The server runs on one asyncio event loop: a coroutine runs without     *)
(* interruption from one suspension point (an await that really suspends)  *)
(* to the next, so every action below is one such uninterrupted stretch.   *)
(*                                                                         *)
(* Strings are sequences of tokens; an f-string is the concatenation of    *)
(* its literal pieces and its arguments.                                   *)
(***************************************************************************)
EXTENDS Integers, Sequences, FiniteSets, TLC

\* ---------------------------------------------------------------- bounds
MaxLoad == 4       \* the load of a run of the process: two for every
                   \* request dispatched, one for every on_step call
                   \* (two requests, or one request whose engine calls
                   \* on_step twice)

Ids == {"r1", "r2"}                     \* context.request_id values
Terms == {"pizza"}                      \* search_term values
Items == {"ramen"}                      \* item_name values
EngineErrors == {<<"timeout">>}         \* str(e) of an engine exception
NotifyError == <<"stream closed">>      \* str(e) of a failed notification

\* The result of run_browser_agent in the i-th engine run: an opaque text,
\* a different one for every run.
EngineText(i) == <<"menu of run ", ToString(i)>>

VARIABLES
    search_results,  \* the module-level dict, request_id -> string
    tasks,           \* the background tasks made by asyncio.create_task
    channel,         \* channel[i]: notifications initiated on task i's context
    acks             \* acks[i]: what the i-th dispatch returned to its caller

vars == <<search_results, tasks, channel, acks>>

\* ------------------------------------------------------------ the strings

\* server.py:60
PendingMsg(term) ==
    <<"Search for '", term, "' in progress. Check back in 30 seconds">>

\* server.py:66
SearchAck(term, rid) ==
    <<"Search for '", term,
      "' started. Please wait for 3 minutes, then you can retrieve results using the resource URI: resource://search_results/",
      rid, ". Use a terminal sleep statement to wait for 2 minutes.">>

\* server.py:193
OrderAck(item) ==
    <<"Order for '", item, "' started. Your order is being processed.">>

\* server.py:85
ErrorText(e) == <<"Error: ">> \o e

\* server.py:86
SearchErrorNote(term, e) == <<"Error searching for '", term, "': ">> \o e

\* server.py:213
OrderErrorNote(item, e) == <<"Error ordering '", item, "': ">> \o e

\* server.py:209
OrderPlacedNote(item) ==
    <<"Order for '", item, "' has been placed successfully!">>

\* server.py:76 and server.py:203
StepNote(kind, n) ==
    IF kind = "search"
    THEN <<"Step ", ToString(n), " completed">>
    ELSE <<"Order step ", ToString(n), " completed">>

\* server.py:97
NotFoundResource(rid) == <<"No search results found for request ID: ", rid>>

\* server.py:111
NotFoundTool(rid) ==
    <<"No search results found for request ID: ", rid,
      ". Perhaps you need to wait for 2 more minutes before retrieving results, if you already have retried, then the search may have failed.">>

\* A notification handed to the context: context.info / context.error carry
\* a text, context.report_progress carries a number.
Note(type, text, value) == [type |-> type, text |-> text, value |-> value]

\* ------------------------------------------------------ the result store

Return(v, d) == [kind |-> "return", value |-> v, store |-> d]
Raise(e, d) == [kind |-> "raise", value |-> <<e>>, store |-> d]

\* Variants of the store writes and reads with one plausible slip each.
MarkPendingReset(d, rid, term) == (rid :> PendingMsg(term))
MarkPendingSkipped(d, rid, term) == d
StoreResultSkipped(d, rid, result) == d
StoreErrorAll(d, rid, e) == [k \in DOMAIN d \cup {rid} |-> ErrorText(e)]
StoreErrorGeneric(d, rid, e) == (rid :> <<"Error: ">>) @@ d
GetUnchecked(d, rid) ==
    IF rid \in DOMAIN d THEN Return(d[rid], d) ELSE Raise("KeyError", d)
GetConsuming(d, rid) ==
    IF rid \notin DOMAIN d
    THEN Return(NotFoundTool(rid), d)
    ELSE Return(d[rid], [k \in DOMAIN d \ {rid} |-> d[k]])

GetResourceLabelled(d, rid) ==
    IF rid \notin DOMAIN d
    THEN Return(NotFoundResource(rid), d)
    ELSE Return(<<"Results for ", rid, ": ">> \o d[rid], d)

\* server.py:60
MarkPending(d, rid, term) == (rid :> PendingMsg(term)) @@ d

\* server.py:81
StoreResult(d, rid, result) == (rid :> result) @@ d

\* server.py:85
StoreError(d, rid, e) == (rid :> ErrorText(e)) @@ d

\* server.py:88-100: response and the store it leaves
get_search_results(d, rid) ==
    IF rid \notin DOMAIN d
    THEN Return(NotFoundResource(rid), d)
    ELSE Return(d[rid], d)

\* server.py:102-113
get_search_results_by_id(d, rid) ==
    IF rid \notin DOMAIN d
    THEN Return(NotFoundTool(rid), d)
    ELSE Return(d[rid], d)

\* server.py:125-132 (this definition replaces the one of 115-123):
\* "return search_results" hands out the dict itself (alias), not a copy
\* of what it holds.
get_all_search_results(d) ==
    [kind |-> "return", alias |-> TRUE, copy |-> <<>>, store |-> d]

\* What a mapping handed out by get_all_search_results holds when the dict
\* holds d.
Held(r, d) == IF r.alias THEN d ELSE r.copy

\* ------------------------------------------------------------- the tasks

\* The coroutine awaited in place of create_task: it runs up to the engine call.
CreateTaskInline(kind, rid, term) ==
    [kind |-> kind, rid |-> rid, term |-> term, pc |-> "engine",
     mode |-> "none", step_count |-> 0, cbs |-> <<>>,
     result |-> <<>>, exc |-> <<>>, outcome |-> "none"]

\* asyncio.create_task(...): the coroutine is scheduled, it has not run yet.
CreateTask(kind, rid, term) ==
    [kind |-> kind, rid |-> rid, term |-> term, pc |-> "scheduled",
     mode |-> "none", step_count |-> 0, cbs |-> <<>>,
     result |-> <<>>, exc |-> <<>>, outcome |-> "none"]

TaskIds == 1..Len(tasks)

Init ==
    /\ search_results = <<>>
    /\ tasks = <<>>
    /\ channel = <<>>
    /\ acks = <<>>

\* ------------------------------------------------------- the dispatchers

\* server.py:42-66
find_menu_options(rid, term) ==
    /\ search_results' = MarkPending(search_results, rid, term)
    /\ tasks' = Append(tasks, CreateTask("search", rid, term))
    /\ channel' = Append(channel, <<>>)
    /\ acks' = Append(acks, SearchAck(term, rid))

\* server.py:169-193
order_food(rid, item) ==
    /\ tasks' = Append(tasks, CreateTask("order", rid, item))
    /\ channel' = Append(channel, <<>>)
    /\ acks' = Append(acks, OrderAck(item))
    /\ UNCHANGED search_results

\* ---------------------------------------------------------- the retrieval

\* server.py:88-100
ReadResource(rid) ==
    LET r == get_search_results(search_results, rid) IN
    /\ r.kind = "return"
    /\ search_results' = r.store
    /\ UNCHANGED <<tasks, channel, acks>>

\* server.py:102-113
GetById(rid) ==
    LET r == get_search_results_by_id(search_results, rid) IN
    /\ r.kind = "return"
    /\ search_results' = r.store
    /\ UNCHANGED <<tasks, channel, acks>>

\* server.py:125-132
GetAll ==
    LET r == get_all_search_results(search_results) IN
    /\ r.kind = "return"
    /\ search_results' = r.store
    /\ UNCHANGED <<tasks, channel, acks>>

\* ------------------------------------------------- the background tasks

SetTask(i, t) == tasks' = [tasks EXCEPT ![i] = t]
Send(i, note) == channel' = [channel EXCEPT ![i] = Append(@, note)]

\* How run_browser_agent treats on_step: it awaits each call before it goes
\* on, or it starts the call and goes on without waiting for it.
EngineModes == {"awaits", "fires"}

AllDone(t) == \A k \in 1..Len(t.cbs) : t.cbs[k] = "done"
LastRaised(t) == Len(t.cbs) > 0 /\ t.cbs[Len(t.cbs)] = "raised"

RECURSIVE StepsMade(_)
StepsMade(ts) ==
    IF ts = <<>> THEN 0 ELSE Len(Head(ts).cbs) + StepsMade(Tail(ts))

\* The engine may call on_step once more.
EngineMayStep(t) ==
    /\ t.pc = "engine"
    /\ t.mode = "awaits" => AllDone(t)

\* The engine may return its final result.
EngineMayReturn(t) ==
    /\ t.pc = "engine"
    /\ t.mode = "awaits" => AllDone(t)

\* The engine may raise e: a failure of its own, or the exception of the
\* on_step call it awaited.
EngineMayRaise(t, e) ==
    /\ t.pc = "engine"
    /\ \/ e \in EngineErrors /\ (t.mode = "awaits" => AllDone(t))
       \/ e = NotifyError /\ t.mode = "awaits" /\ LastRaised(t)

\* server.py:74-76, 201-203: step_count += 1 and the message of context.info
StepBegin(t, k) ==
    [t EXCEPT !.step_count = @ + 1,
              !.cbs = [j \in 1..(IF k > Len(@) THEN k ELSE Len(@)) |->
                          IF j = k THEN "info" ELSE @[j]]]

StepInfo(t) == Note("info", StepNote(t.kind, t.step_count + 1), 0)

\* server.py:77, 204: the argument of context.report_progress
StepProgress(t) == Note("progress", <<>>, t.step_count)

\* server.py:68-71, 79 (195-198, 206): the task starts and calls the engine
RunnerStart(i) ==
    /\ i \in TaskIds
    /\ tasks[i].pc = "scheduled"
    /\ SetTask(i, [tasks[i] EXCEPT !.pc = "engine"])
    /\ UNCHANGED <<search_results, channel, acks>>

\* The engine calls on_step; its first call shows how it treats on_step.
EngineStep(i, mode) ==
    /\ i \in TaskIds
    /\ LET t == [tasks[i] EXCEPT !.mode = mode] IN
       /\ EngineMayStep(tasks[i])
       /\ tasks[i].mode \in {"none", mode}
       /\ IF mode = "awaits"
          THEN /\ SetTask(i, StepBegin(t, Len(t.cbs) + 1))
               /\ Send(i, StepInfo(t))
          ELSE /\ SetTask(i, [t EXCEPT !.cbs = Append(@, "scheduled")])
               /\ UNCHANGED channel
       /\ UNCHANGED <<search_results, acks>>

\* server.py:73-76: an on_step call the engine did not wait for starts; the
\* event loop starts such calls in the order the engine made them.
StepStart(i, k) ==
    /\ i \in TaskIds
    /\ LET t == tasks[i] IN
       /\ k \in 1..Len(t.cbs)
       /\ t.cbs[k] = "scheduled"
       /\ \A j \in 1..(k - 1) : t.cbs[j] # "scheduled"
       /\ SetTask(i, StepBegin(t, k))
       /\ Send(i, StepInfo(t))
       /\ UNCHANGED <<search_results, acks>>

\* server.py:76-77: context.info has delivered, report_progress is called
InfoDelivered(i, k) ==
    /\ i \in TaskIds
    /\ LET t == tasks[i] IN
       /\ k \in 1..Len(t.cbs)
       /\ t.cbs[k] = "info"
       /\ SetTask(i, [t EXCEPT !.cbs[k] = "progress"])
       /\ Send(i, StepProgress(t))
       /\ UNCHANGED <<search_results, acks>>

\* server.py:76: context.info raises, the on_step call ends with it
InfoFailed(i, k) ==
    /\ i \in TaskIds
    /\ LET t == tasks[i] IN
       /\ k \in 1..Len(t.cbs)
       /\ t.cbs[k] = "info"
       /\ SetTask(i, [t EXCEPT !.cbs[k] = "raised"])
       /\ UNCHANGED <<search_results, channel, acks>>

\* server.py:77: context.report_progress has delivered, the call returns
ProgressDelivered(i, k) ==
    /\ i \in TaskIds
    /\ LET t == tasks[i] IN
       /\ k \in 1..Len(t.cbs)
       /\ t.cbs[k] = "progress"
       /\ SetTask(i, [t EXCEPT !.cbs[k] = "done"])
       /\ UNCHANGED <<search_results, channel, acks>>

\* server.py:77: context.report_progress raises
ProgressFailed(i, k) ==
    /\ i \in TaskIds
    /\ LET t == tasks[i] IN
       /\ k \in 1..Len(t.cbs)
       /\ t.cbs[k] = "progress"
       /\ SetTask(i, [t EXCEPT !.cbs[k] = "raised"])
       /\ UNCHANGED <<search_results, channel, acks>>

\* server.py:79-81: run_browser_agent returns, perform_search stores the
\* result and ends
SearchReturn(i) ==
    /\ i \in TaskIds
    /\ LET t == tasks[i]
           text == EngineText(i) IN
       /\ t.kind = "search"
       /\ EngineMayReturn(t)
       /\ search_results' = StoreResult(search_results, t.rid, text)
       /\ SetTask(i, [t EXCEPT !.pc = "done", !.outcome = "returned",
                               !.result = text])
       /\ UNCHANGED <<channel, acks>>

\* perform_search without its except clause: the exception ends the task.
SearchRaiseUncaught(i, e) ==
    /\ i \in TaskIds
    /\ tasks[i].kind = "search"
    /\ EngineMayRaise(tasks[i], e)
    /\ SetTask(i, [tasks[i] EXCEPT !.pc = "faulted", !.outcome = "raised",
                                   !.exc = e])
    /\ UNCHANGED <<search_results, channel, acks>>

\* perform_search calling context.error before it stores the error: the
\* write waits for the notification.
SearchRaiseNotifyFirst(i, e) ==
    /\ i \in TaskIds
    /\ LET t == tasks[i] IN
       /\ t.kind = "search"
       /\ EngineMayRaise(t, e)
       /\ Send(i, Note("error", SearchErrorNote(t.term, e), 0))
       /\ SetTask(i, [t EXCEPT !.pc = "error", !.outcome = "raised", !.exc = e])
       /\ UNCHANGED <<search_results, acks>>

\* server.py:83-86: run_browser_agent raises, perform_search stores the
\* error and calls context.error
SearchRaise(i, e) ==
    /\ i \in TaskIds
    /\ LET t == tasks[i] IN
       /\ t.kind = "search"
       /\ EngineMayRaise(t, e)
       /\ search_results' = StoreError(search_results, t.rid, e)
       /\ Send(i, Note("error", SearchErrorNote(t.term, e), 0))
       /\ SetTask(i, [t EXCEPT !.pc = "error", !.outcome = "raised", !.exc = e])
       /\ UNCHANGED acks

\* server.py:206-209: run_browser_agent returns, perform_order calls
\* context.info
OrderReturn(i) ==
    /\ i \in TaskIds
    /\ LET t == tasks[i]
           text == EngineText(i) IN
       /\ t.kind = "order"
       /\ EngineMayReturn(t)
       /\ Send(i, Note("info", OrderPlacedNote(t.term), 0))
       /\ SetTask(i, [t EXCEPT !.pc = "placed", !.outcome = "returned",
                               !.result = text])
       /\ UNCHANGED <<search_results, acks>>

\* server.py:212-214: run_browser_agent raises, perform_order calls
\* context.error
OrderRaise(i, e) ==
    /\ i \in TaskIds
    /\ LET t == tasks[i] IN
       /\ t.kind = "order"
       /\ EngineMayRaise(t, e)
       /\ Send(i, Note("error", OrderErrorNote(t.term, e), 0))
       /\ SetTask(i, [t EXCEPT !.pc = "error", !.outcome = "raised", !.exc = e])
       /\ UNCHANGED <<search_results, acks>>

\* server.py:209-210: context.info has delivered, perform_order returns
PlacedDelivered(i) ==
    /\ i \in TaskIds
    /\ LET t == tasks[i] IN
       /\ t.pc = "placed"
       /\ SetTask(i, [t EXCEPT !.pc = "done"])
       /\ UNCHANGED <<search_results, channel, acks>>

\* server.py:209, 212-214: context.info raises inside the try block
PlacedFailed(i) ==
    /\ i \in TaskIds
    /\ LET t == tasks[i] IN
       /\ t.pc = "placed"
       /\ Send(i, Note("error", OrderErrorNote(t.term, NotifyError), 0))
       /\ SetTask(i, [t EXCEPT !.pc = "error", !.exc = NotifyError])
       /\ UNCHANGED <<search_results, acks>>

\* perform_search writing the entry a second time once context.error is over.
ErrorDeliveredRewriting(i) ==
    /\ i \in TaskIds
    /\ LET t == tasks[i] IN
       /\ t.pc = "error"
       /\ SetTask(i, [t EXCEPT !.pc = "done"])
       /\ search_results' =
              IF t.kind = "search"
              THEN (t.rid :> SearchErrorNote(t.term, t.exc)) @@ search_results
              ELSE search_results
       /\ UNCHANGED <<channel, acks>>

\* server.py:86, 214-215: context.error has delivered, the task ends
ErrorDelivered(i) ==
    /\ i \in TaskIds
    /\ LET t == tasks[i] IN
       /\ t.pc = "error"
       /\ SetTask(i, [t EXCEPT !.pc = "done"])
       /\ UNCHANGED <<search_results, channel, acks>>

\* server.py:86, 214: context.error raises inside the except block, the
\* exception leaves the coroutine
ErrorFailed(i) ==
    /\ i \in TaskIds
    /\ LET t == tasks[i] IN
       /\ t.pc = "error"
       /\ SetTask(i, [t EXCEPT !.pc = "faulted"])
       /\ UNCHANGED <<search_results, channel, acks>>

\* The load of a run of the process: two for every request dispatched, one
\* for every on_step call.
Load == 2 * Len(tasks) + StepsMade(tasks)

TaskSlots == 1..(MaxLoad \div 2)
StepSlots == 1..MaxLoad
Raised == EngineErrors \cup {NotifyError}

\* The process serves requests while its load is below MaxLoad.
Next ==
    \/ \E rid \in Ids, term \in Terms :
           Load + 2 <= MaxLoad /\ find_menu_options(rid, term)
    \/ \E rid \in Ids, item \in Items :
           Load + 2 <= MaxLoad /\ order_food(rid, item)
    \/ \E rid \in Ids : ReadResource(rid)
    \/ \E rid \in Ids : GetById(rid)
    \/ GetAll
    \/ \E i \in TaskSlots : RunnerStart(i)
    \/ \E i \in TaskSlots, mode \in EngineModes :
           Load + 1 <= MaxLoad /\ EngineStep(i, mode)
    \/ \E i \in TaskSlots, k \in StepSlots : StepStart(i, k)
    \/ \E i \in TaskSlots, k \in StepSlots : InfoDelivered(i, k)
    \/ \E i \in TaskSlots, k \in StepSlots : InfoFailed(i, k)
    \/ \E i \in TaskSlots, k \in StepSlots : ProgressDelivered(i, k)
    \/ \E i \in TaskSlots, k \in StepSlots : ProgressFailed(i, k)
    \/ \E i \in TaskSlots : SearchReturn(i)
    \/ \E i \in TaskSlots, e \in Raised : SearchRaise(i, e)
    \/ \E i \in TaskSlots : OrderReturn(i)
    \/ \E i \in TaskSlots, e \in Raised : OrderRaise(i, e)
    \/ \E i \in TaskSlots : PlacedDelivered(i)
    \/ \E i \in TaskSlots : PlacedFailed(i)
    \/ \E i \in TaskSlots : ErrorDelivered(i)
    \/ \E i \in TaskSlots : ErrorFailed(i)

Spec == Init /\ [][Next]_vars

\* The event loop runs every task that is ready, and the engine ends every
\* run: it returns or raises.
Progress ==
    \/ \E i \in TaskSlots : RunnerStart(i)
    \/ \E i \in TaskSlots, k \in StepSlots : StepStart(i, k)
    \/ \E i \in TaskSlots, k \in StepSlots : InfoDelivered(i, k)
    \/ \E i \in TaskSlots, k \in StepSlots : ProgressDelivered(i, k)
    \/ \E i \in TaskSlots : SearchReturn(i)
    \/ \E i \in TaskSlots, e \in Raised : SearchRaise(i, e)
    \/ \E i \in TaskSlots : OrderReturn(i)
    \/ \E i \in TaskSlots, e \in Raised : OrderRaise(i, e)
    \/ \E i \in TaskSlots : PlacedDelivered(i)
    \/ \E i \in TaskSlots : ErrorDelivered(i)

FairSpec == Spec /\ WF_vars(Progress)

\* ------------------------------------------------------------ vocabulary

IsPending(v) == \E term \in Terms : v = PendingMsg(term)
Terminal(d, rid) == rid \in DOMAIN d /\ ~IsPending(d[rid])

\* The find_menu_options dispatches made with the identity rid.
SearchTasksFor(rid) ==
    {i \in TaskIds : tasks[i].kind = "search" /\ tasks[i].rid = rid}
DispatchedOnce(rid) == Cardinality(SearchTasksFor(rid)) = 1
Submitted(rid) == \E i \in TaskIds : tasks[i].rid = rid
Latest(rid) == CHOOSE i \in SearchTasksFor(rid) :
                   \A j \in SearchTasksFor(rid) : j <= i
Unfinished(i) == tasks[i].pc \in {"scheduled", "engine"}

\* What the runner of task i stored when its engine run ended.
Outcome(i) ==
    IF tasks[i].outcome = "returned"
    THEN tasks[i].result
    ELSE ErrorText(tasks[i].exc)

Contains(s, m) ==
    \E k \in 0..(Len(s) - Len(m)) : SubSeq(s, k + 1, k + Len(m)) = m

Kept(rid) ==
    /\ rid \in DOMAIN search_results'
    /\ search_results'[rid] = search_results[rid]

SameEntry(rid) ==
    IF rid \in DOMAIN search_results
    THEN Kept(rid)
    ELSE rid \notin DOMAIN search_results'

\* ------------------------------------------------------------------- C1
\* C1 as stated: once search_results[id] holds a Completed text or a Failed
\* message, no later step changes the value stored under id, whatever
\* identities the dispatches use.
C1_TerminalNeverOverwritten ==
    [][\A rid \in Ids : Terminal(search_results, rid) => Kept(rid)]_vars

\* C1 amended: for an identity that find_menu_options is dispatched with
\* once, a Completed text or Failed message stored under it is never changed
\* by any later step.
C1_TerminalFinalWhenDispatchedOnce ==
    [][\A rid \in Ids :
          Terminal(search_results, rid) /\ DispatchedOnce(rid)'
              => Kept(rid)]_vars

\* An identity dispatched once holds its terminal outcome after the run of
\* another identity has ended too.
C1_Witness ==
    \E i, j \in TaskIds :
        /\ tasks[i].kind = "search" /\ tasks[j].kind = "search"
        /\ tasks[i].rid # tasks[j].rid
        /\ tasks[i].pc = "done" /\ tasks[j].pc = "done"
        /\ search_results[tasks[i].rid] = EngineText(i)

\* ------------------------------------------------------------------- C2
\* C2: every identity dispatched by find_menu_options comes to hold a
\* terminal outcome (not the pending message) once its runner runs and the
\* engine ends the run, on the success path and on the failure path.
C2_NoIdentityPendingForever ==
    \A i \in TaskSlots :
        (i \in TaskIds /\ tasks[i].kind = "search")
            ~> (i \in TaskIds /\ ~Unfinished(i)
                /\ Terminal(search_results, tasks[i].rid))

\* A runner has ended on the failure path and its identity is terminal.
C2_Witness ==
    \E i \in TaskIds :
        /\ tasks[i].kind = "search"
        /\ tasks[i].outcome = "raised"
        /\ tasks[i].pc \in {"done", "faulted"}
        /\ Terminal(search_results, tasks[i].rid)

\* ------------------------------------------------------------------- C3
\* C3: from the acknowledgement of find_menu_options for id until a runner
\* dispatched for id ends its engine run, both retrieval operations return
\* the pending message of the dispatch, never the unknown-identity message.
C3_PendingAfterSubmit ==
    \A rid \in Ids :
        (SearchTasksFor(rid) # {} /\ \A i \in SearchTasksFor(rid) : Unfinished(i))
            => LET msg == PendingMsg(tasks[Latest(rid)].term) IN
               /\ get_search_results_by_id(search_results, rid)
                      = Return(msg, search_results)
               /\ get_search_results(search_results, rid)
                      = Return(msg, search_results)

\* The acknowledgement was just returned and the engine run goes on.
C3_Witness ==
    \E i \in TaskIds :
        /\ tasks[i].kind = "search"
        /\ tasks[i].pc = "engine"
        /\ acks[i] = SearchAck(tasks[i].term, tasks[i].rid)
        /\ IsPending(search_results[tasks[i].rid])

\* ------------------------------------------------------------------- C4
\* C4: for an identity no dispatch was made with, both retrieval operations
\* return their unknown-identity string as a normal return value, and the
\* Result Store holds no entry for it, before and after the retrieval.
C4_UnknownIdentity ==
    \A rid \in Ids :
        ~Submitted(rid) =>
            /\ rid \notin DOMAIN search_results
            /\ get_search_results_by_id(search_results, rid)
                   = Return(NotFoundTool(rid), search_results)
            /\ get_search_results(search_results, rid)
                   = Return(NotFoundResource(rid), search_results)

\* One identity was submitted and stored, another never was.
C4_Witness ==
    \E rid, other \in Ids :
        /\ ~Submitted(rid)
        /\ other \in DOMAIN search_results
        /\ get_search_results_by_id(search_results, rid).value = NotFoundTool(rid)

\* ------------------------------------------------------------------- C5
\* C5: after the only runner of identity id has completed with text T, both
\* retrieval operations return exactly T in every later state, whatever is
\* done with other identities, and a retrieval leaves the Result Store as
\* it was.
C5_Completed(rid) ==
    \A i \in SearchTasksFor(rid) :
        (DispatchedOnce(rid) /\ tasks[i].outcome = "returned") =>
            /\ get_search_results_by_id(search_results, rid)
                   = Return(tasks[i].result, search_results)
            /\ get_search_results(search_results, rid)
                   = Return(tasks[i].result, search_results)

C5_IdempotentRead ==
    [][/\ \A rid \in Ids : C5_Completed(rid)'
       /\ UNCHANGED <<tasks, channel, acks>> => UNCHANGED search_results]_vars

\* The text of a completed run is stored while another identity's run has
\* been dispatched and has ended.
C5_Witness ==
    \E i, j \in TaskIds :
        /\ tasks[i].kind = "search" /\ tasks[i].outcome = "returned"
        /\ tasks[j].rid # tasks[i].rid
        /\ tasks[j].outcome # "none"
        /\ get_search_results_by_id(search_results, tasks[i].rid).value
               = EngineText(i)
\* ------------------------------------------------------------------- C6
Failed(i) == tasks[i].kind = "search" /\ tasks[i].outcome = "raised"

C6_ShowsFailure(i) ==
    LET got == get_search_results_by_id(search_results, tasks[i].rid) IN
    /\ got.kind = "return"
    /\ Contains(got.value, tasks[i].exc)
    /\ ~IsPending(got.value)

\* C6 as stated: after the runner of an identity has failed with message M,
\* get returns a response containing M in every later state and never the
\* pending message, whatever identities later dispatches use.
C6_FailedNeverReverts ==
    \A i \in TaskIds : Failed(i) => C6_ShowsFailure(i)

\* C6 amended: after the runner of an identity that find_menu_options is
\* dispatched with once has failed with message M, get returns a response
\* containing M in every later state and never the pending message.
C6_FailedStaysWhenDispatchedOnce ==
    \A i \in TaskIds :
        (Failed(i) /\ DispatchedOnce(tasks[i].rid)) => C6_ShowsFailure(i)

\* A run has failed, its error notification is over, and another identity
\* has been dispatched since.
C6_Witness ==
    \E i, j \in TaskIds :
        /\ Failed(i) /\ DispatchedOnce(tasks[i].rid)
        /\ tasks[i].pc \in {"done", "faulted"}
        /\ i < j /\ tasks[j].pc # "scheduled"
        /\ search_results[tasks[i].rid] = ErrorText(tasks[i].exc)

\* ------------------------------------------------------------------- C7
Ack(t) ==
    IF t.kind = "search" THEN SearchAck(t.term, t.rid) ELSE OrderAck(t.term)

\* C7: a dispatch (find_menu_options, order_food) returns its
\* acknowledgement in the step that schedules the background task: at that
\* point the task has not called the engine, and no later step, an engine
\* failure included, touches the acknowledgement.
C7_DispatchNonBlocking ==
    [][/\ Len(tasks') > Len(tasks) =>
              LET t == tasks'[Len(tasks')] IN
              /\ t.pc = "scheduled" /\ t.outcome = "none"
              /\ acks' = Append(acks, Ack(t))
       /\ Len(tasks') = Len(tasks) => acks' = acks
       /\ \A i \in TaskIds :
              (tasks[i].pc = "scheduled" /\ tasks'[i].pc # "scheduled")
                  => i \in 1..Len(acks)]_vars

\* Both dispatchers were acknowledged and both engine runs failed later.
C7_Witness ==
    \E i, j \in TaskIds :
        /\ tasks[i].kind = "search" /\ tasks[j].kind = "order"
        /\ tasks[i].outcome = "raised" /\ tasks[j].outcome = "raised"
        /\ acks[i] = Ack(tasks[i]) /\ acks[j] = Ack(tasks[j])

\* ------------------------------------------------------------------- C8
\* C8: with distinct identities running concurrently, the entry of each
\* identity whose run has ended is the result, or the failure message, of
\* its own engine run, and the step in which a runner writes its outcome
\* leaves the entries of all other identities as they were.
C8_OwnOutcome ==
    \A i \in TaskIds :
        (tasks[i].kind = "search" /\ DispatchedOnce(tasks[i].rid)
         /\ tasks[i].outcome # "none")
            => /\ tasks[i].rid \in DOMAIN search_results
               /\ search_results[tasks[i].rid] = Outcome(i)

C8_NoCrossContamination ==
    [][/\ C8_OwnOutcome'
       /\ \A i \in TaskIds :
              (tasks[i].outcome = "none" /\ tasks'[i].outcome # "none")
                  => \A rid \in Ids \ {tasks[i].rid} : SameEntry(rid)]_vars

\* Two identities run at once: the run dispatched second has failed first,
\* the entry of the other identity is still its pending message.
C8_Witness ==
    /\ Len(tasks) = 2
    /\ tasks[1].kind = "search" /\ tasks[2].kind = "search"
    /\ tasks[1].rid # tasks[2].rid
    /\ tasks[1].pc = "engine" /\ tasks[2].outcome = "raised"
    /\ search_results[tasks[2].rid] = ErrorText(tasks[2].exc)
    /\ IsPending(search_results[tasks[1].rid])

\* ------------------------------------------------------------------- C9
IsStepNote(i, n) ==
    /\ n.type = "info"
    /\ \E k \in 1..Len(tasks[i].cbs) : n.text = StepNote(tasks[i].kind, k)
IsProgressNote(n) == n.type = "progress"

StepNotes(i) == SelectSeq(channel[i], LAMBDA n : IsStepNote(i, n))
ProgressNotes(i) == SelectSeq(channel[i], IsProgressNote)

\* C9: for one engine run of perform_search, the step notifications sent to
\* the caller carry the indices 1, 2, ... in that order, with no gap and no
\* duplicate: the k-th "Step N completed" message has N = k and the k-th
\* progress value is k.
C9_StepOrder ==
    \A i \in TaskIds :
        tasks[i].kind = "search" =>
            /\ \A k \in 1..Len(StepNotes(i)) :
                   StepNotes(i)[k].text = StepNote("search", k)
            /\ \A k \in 1..Len(ProgressNotes(i)) :
                   ProgressNotes(i)[k].value = k

\* ------------------------------------------------------------------ C10
\* C10: in the step in which the engine run of a find_menu_options request
\* raises, the runner stores the Failed message built from the exception
\* under the request's identity, sends the error notification on the
\* request's context, and goes on in its handler: the exception does not
\* leave the runner.
C10_EngineFailureHandled ==
    [][\A i \in TaskIds :
          (tasks[i].kind = "search" /\ tasks[i].outcome = "none"
           /\ tasks'[i].outcome = "raised")
              => LET t == tasks'[i] IN
                 /\ t.rid \in DOMAIN search_results'
                 /\ search_results'[t.rid] = ErrorText(t.exc)
                 /\ t.exc \in Raised
                 /\ channel'[i] = Append(channel[i],
                        Note("error", SearchErrorNote(t.term, t.exc), 0))
                 /\ t.pc = "error"]_vars

\* An engine run has raised and the error notification was delivered.
C10_Witness ==
    \E i \in TaskIds :
        /\ Failed(i)
        /\ tasks[i].exc \in EngineErrors
        /\ tasks[i].pc = "done"
        /\ channel[i] # <<>>
        /\ channel[i][Len(channel[i])].type = "error"
\* ------------------------------------------------------------------ C11
\* The identities of all dispatches made so far, by either dispatcher.
SubmittedIds == {tasks[i].rid : i \in TaskIds}

\* C11: in every state, the mapping get_all_search_results returns has as
\* its keys exactly the identities submitted so far through
\* find_menu_options or order_food, each with its current entry.
C11_AllKeysAreSubmitted ==
    LET r == get_all_search_results(search_results)
        m == Held(r, search_results) IN
    /\ r.kind = "return"
    /\ DOMAIN m = SubmittedIds
    /\ \A rid \in DOMAIN m : m[rid] = search_results[rid]

\* ------------------------------------------------------------------ C12
\* C12: the identity of an order_food request is in the Result Store from
\* the acknowledgement on, as Pending while its run goes on and as the
\* terminal outcome of the run once it has ended.
C12_OrderFollowsContract ==
    \A i \in TaskIds :
        tasks[i].kind = "order" =>
            /\ tasks[i].rid \in DOMAIN search_results
            /\ (tasks[i].pc \in {"done", "faulted"}
                /\ Cardinality({j \in TaskIds : tasks[j].rid = tasks[i].rid}) = 1)
                   => Terminal(search_results, tasks[i].rid)

\* ------------------------------------------------------------------ C13
\* C13 as stated: in every state and for every identity, unknown ones
\* included, the resource read and get_search_results_by_id return the same
\* response.
C13_RetrievalsEquivalent ==
    \A rid \in Ids :
        get_search_results(search_results, rid)
            = get_search_results_by_id(search_results, rid)

\* C13 amended: for every identity that has an entry (Pending, Completed or
\* Failed) the resource read and get_search_results_by_id return the same
\* response, the entry; for an identity without entry each returns normally
\* and leaves the store alone, and the response of the tool is the response
\* of the resource followed by a hint to retry.
C13_RetrievalsAgreeOnEntries ==
    \A rid \in Ids :
        LET res == get_search_results(search_results, rid)
            tool == get_search_results_by_id(search_results, rid) IN
        IF rid \in DOMAIN search_results
        THEN res = tool /\ res = Return(search_results[rid], search_results)
        ELSE /\ res.kind = "return" /\ tool.kind = "return"
             /\ res.store = search_results /\ tool.store = search_results
             /\ Len(tool.value) = Len(res.value) + 1
             /\ SubSeq(tool.value, 1, Len(res.value)) = res.value
             /\ res.value # tool.value

\* One identity holds a Failed message which both retrievals return, the
\* other identity has no entry.
C13_Witness ==
    \E i \in TaskIds, other \in Ids :
        /\ Failed(i)
        /\ other \notin DOMAIN search_results
        /\ get_search_results(search_results, tasks[i].rid).value
               = ErrorText(tasks[i].exc)
        /\ get_search_results_by_id(search_results, tasks[i].rid).value
               = ErrorText(tasks[i].exc)

\* ------------------------------------------------------------------ C14
\* The step in which the runner of task i writes its outcome.
RunnerWrites(i) == tasks[i].outcome = "none" /\ tasks'[i].outcome # "none"

\* C14 as stated: over any sequence of dispatches and runner completions, an
\* entry is created as Pending, and at most one runner ever writes the entry
\* of an identity: when a runner writes, the entry is Pending and no other
\* runner of that identity has written.
C14_SingleWriter ==
    [][\A rid \in Ids :
          /\ (rid \notin DOMAIN search_results /\ rid \in DOMAIN search_results')
                 => IsPending(search_results'[rid])
          /\ \A i \in SearchTasksFor(rid) :
                 RunnerWrites(i) =>
                     /\ IsPending(search_results[rid])
                     /\ \A j \in SearchTasksFor(rid) \ {i} :
                            tasks[j].outcome = "none"]_vars

\* C14 amended: the entry of an identity that find_menu_options is
\* dispatched with once is created as Pending by that dispatch and is then
\* written exactly once: the step in which its runner's engine run ends
\* moves it from Pending to the outcome of that run, and no other step
\* (another identity's runner, a notification, a retrieval) changes it.
C14_WrittenOnceWhenDispatchedOnce ==
    [][\A rid \in Ids :
          DispatchedOnce(rid)' =>
              /\ rid \in DOMAIN search_results'
              /\ ~DispatchedOnce(rid) => IsPending(search_results'[rid])
              /\ DispatchedOnce(rid) =>
                     \A i \in SearchTasksFor(rid) :
                         IF RunnerWrites(i)
                         THEN /\ IsPending(search_results[rid])
                              /\ search_results'[rid] = Outcome(i)'
                              /\ ~IsPending(search_results'[rid])
                         ELSE Kept(rid)]_vars

\* The runners of two identities, each dispatched once, have written: one a
\* result, the other a failure whose notification is over.
C14_Witness ==
    \E i, j \in TaskIds :
        /\ tasks[i].kind = "search" /\ tasks[j].kind = "search"
        /\ tasks[i].rid # tasks[j].rid
        /\ tasks[i].outcome = "returned" /\ tasks[j].outcome = "raised"
        /\ tasks[j].pc = "done"
        /\ search_results[tasks[i].rid] = tasks[i].result
        /\ search_results[tasks[j].rid] = ErrorText(tasks[j].exc)

\* ------------------------------------------------------------------ C15
\* The step notifications (info messages and progress values) initiated so
\* far on the context of task i.
StepNotesSent(i) == Len(StepNotes(i)) + Len(ProgressNotes(i))

\* C15: once the runner of a find_menu_options request has written its
\* terminal outcome, no step notification of that run (info message or
\* progress value) is initiated any more, whether the engine awaits the step
\* callback or fires it without waiting.
C15_NoStepNoteAfterTerminalWrite ==
    [][\A i \in TaskIds :
          (tasks[i].kind = "search" /\ tasks[i].outcome # "none")
              => StepNotesSent(i)' = StepNotesSent(i)]_vars

\* ------------------------------------------------------------------ C16
\* The notification the last step has put on the context of task i.
LastNote(i) == channel'[i][Len(channel'[i])]

\* The k-th on_step call of task i sends its message in this step.
SendsInfo(i, k) ==
    /\ k \in 1..Len(tasks'[i].cbs)
    /\ tasks'[i].cbs[k] = "info"
    /\ k \in 1..Len(tasks[i].cbs) => tasks[i].cbs[k] = "scheduled"

\* The k-th on_step call of task i reports its progress value in this step.
SendsProgress(i, k) ==
    /\ k \in 1..Len(tasks[i].cbs)
    /\ tasks[i].cbs[k] = "info"
    /\ tasks'[i].cbs[k] = "progress"

\* C16: every on_step call forwards a consistent pair, also when calls of
\* one run overlap: the k-th call of a run sends the message with step index
\* k, and the progress value it reports afterwards is that same index.
C16_ConsistentPair ==
    [][\A i \in TaskIds : \A k \in StepSlots :
          /\ SendsInfo(i, k) =>
                 /\ Len(channel'[i]) = Len(channel[i]) + 1
                 /\ LastNote(i) = Note("info", StepNote(tasks[i].kind, k), 0)
          /\ SendsProgress(i, k) =>
                 /\ Len(channel'[i]) = Len(channel[i]) + 1
                 /\ LastNote(i) = Note("progress", <<>>, k)]_vars

\* ------------------------------------------------------------------ C17
\* C17: the mapping get_all_search_results returns is a snapshot: whatever
\* a later step (a dispatch, a runner completion) writes to the Result
\* Store, a mapping returned before that step holds after it what it held
\* when it was returned.
C17_ReturnedMappingIsSnapshot ==
    [][LET r == get_all_search_results(search_results) IN
       r.kind = "return" /\ Held(r, search_results') = Held(r, search_results)]_vars

\* ------------------------------------------------------------------ C18
\* The error notification of task i has been initiated.
ErrorNotified(i) ==
    \E n \in 1..Len(channel[i]) :
        channel[i][n] = Note("error", SearchErrorNote(tasks[i].term, tasks[i].exc), 0)

FailedStored(i) ==
    get_search_results_by_id(search_results, tasks[i].rid)
        = Return(ErrorText(tasks[i].exc), search_results)

\* C18 as stated: in every state in which the error notification of a
\* find_menu_options request has been initiated, get returns the Failed
\* message of that request for its identity, not Pending, whatever
\* identities the dispatches use.
C18_FailedOnceNotified ==
    \A i \in TaskIds :
        (tasks[i].kind = "search" /\ ErrorNotified(i)) => FailedStored(i)

\* C18 amended: the Failed message is stored no later than the error
\* notification is initiated, and for an identity that find_menu_options is
\* dispatched with once, get returns the Failed message, not Pending, in
\* every state in which the error notification has been initiated, also
\* when the notification is slow or fails.
C18_FailedStoredBeforeErrorNote ==
    [][\A i \in TaskIds :
          tasks[i].kind = "search" =>
              /\ (~ErrorNotified(i) /\ ErrorNotified(i)') => FailedStored(i)'
              /\ (ErrorNotified(i)' /\ DispatchedOnce(tasks[i].rid)')
                     => FailedStored(i)' /\ ~IsPending(search_results'[tasks[i].rid])]_vars

\* The error notification of a failed run has itself failed, and get
\* returns the Failed message of the run.
C18_Witness ==
    \E i \in TaskIds :
        /\ tasks[i].kind = "search"
        /\ tasks[i].pc = "faulted"
        /\ ErrorNotified(i)
        /\ DispatchedOnce(tasks[i].rid)
        /\ FailedStored(i)
====
